---- MODULE Spec2Model ----
(***************************************************************************)
(* Model of src/app.py (FX Trade Analysis): the ingestion pipeline         *)
(* load_and_process_data (read, concat, drop_duplicates, type conversion,  *)
(* split, inner merge, sort) and the KPI engine calculate_kpis.            *)
(*                                                                         *)
(* Column names of the CSV are Japanese in the source; the record fields   *)
(* here are their ASCII counterparts:                                      *)
(*   id   = '取引番号'          link = '決済対象取引番号'                  *)
(*   kind = '区分'              time = '約定日時'                          *)
(*   pnl  = '決済損益'          qty  = '数量'                              *)
(*   pair = '通貨ペア'          side = '売買'                              *)
(* A merged row carries the suffixed columns as id_exit, id_entry, ...     *)
(***************************************************************************)
EXTENDS Integers, Sequences, FiniteSets, TLC

VARIABLES files, df, trades, kpis, tieOrder, called

vars == <<files, df, trades, kpis, tieOrder, called>>

----------------------------------------------------------------------------
(* Bounds of the model. *)

\* most files in one uploaded batch
MaxFiles == 3
\* most rows in one batch, a file that cannot be read counting as one
MaxRows == 3
\* most trades handed to calculate_kpis
MaxTrades == 4

----------------------------------------------------------------------------
(* Cells: every field is read as text (dtype=str); an empty cell is NaN. *)

NaN == "NaN"

\* a text cell is a sequence of characters; the empty sequence is a NaN cell
Digits == <<"0", "1", "2", "3", "4", "5", "6", "7", "8", "9">>

IsDigit(c) == \E i \in 1..10 : Digits[i] = c

DigitVal(c) == (CHOOSE i \in 1..10 : Digits[i] = c) - 1

\* Series.str.replace(',', '')
StrReplaceComma(cell) == SelectSeq(cell, LAMBDA c : c # ",")

RECURSIVE ParseDigits(_, _)
ParseDigits(s, acc) ==
    IF s = <<>> THEN acc ELSE ParseDigits(Tail(s), acc * 10 + DigitVal(Head(s)))

\* pd.to_numeric(..., errors='coerce'): the number, or NaN when the text is
\* not a number (a lone '-', letters, an empty cell)
IsNumeric(s) ==
    LET body == IF s # <<>> /\ Head(s) = "-" THEN Tail(s) ELSE s
    IN  body # <<>> /\ \A i \in 1..Len(body) : IsDigit(body[i])

\* pd.to_numeric(col.str.replace(',', ''), errors='coerce').fillna(0)
ToNumericFillZero(cell) ==
    LET s == StrReplaceComma(cell)
    IN  IF ~IsNumeric(s) THEN 0
        ELSE IF Head(s) = "-" THEN 0 - ParseDigits(Tail(s), 0)
        ELSE ParseDigits(s, 0)

\* The timestamp texts the sources carry and the instant each parses to
\* (an ordinal of the day); any other text makes pd.to_datetime raise.
TimeTexts == {"2025-01-10", "2025-01-20", "2025-02-05"}

ParsesAsDatetime(cell) == cell \in TimeTexts

ToDatetime(cell) ==
    CASE cell = "2025-01-10" -> 10
      [] cell = "2025-01-20" -> 20
      [] cell = "2025-02-05" -> 36

\* Series.dt.strftime('%Y-%m') of a parsed instant
StrftimeYm(t) == IF t <= 31 THEN "2025-01" ELSE "2025-02"

----------------------------------------------------------------------------
(* Input sources. *)

Row(id, kind, link, time, pnl) ==
    [id |-> id, kind |-> kind, link |-> link, time |-> time, pnl |-> pnl,
     qty |-> <<"1", ",", "0", "0", "0">>, pair |-> "USD/JPY", side |-> "buy"]

\* The fills the sources may carry: an OPEN, three CLOSE rows that reference
\* it (two of them under the same transaction id with different values, two
\* of them with the same timestamp), a CLOSE that references an OPEN no
\* source carries, a row of a third category that reuses the OPEN's id, and
\* an OPEN whose timestamp does not parse.
RowPool ==
    { Row("A", "OPEN", NaN, "2025-01-10", <<"-">>),
      Row("X", "CLOSE", "A", "2025-02-05", <<"1", ",", "0", "0", "0">>),
      Row("X", "CLOSE", "A", "2025-01-20", <<"-", "5", "0">>),
      Row("Y", "CLOSE", "A", "2025-01-20", <<"-">>),
      Row("Z", "CLOSE", "B", "2025-01-10", <<"8", "0">>),
      Row("A", "SWAP", NaN, "2025-01-20", <<"3">>),
      Row("A", "OPEN", NaN, "n/a", <<>>) }

\* how a source is encoded and whether it has the transaction-id column:
\* UTF-8 with the column, CP932 (Shift-JIS) without it, or undecodable
FileKinds == {"utf8", "cp932-noid", "binary"}

RowSeqs(n) == UNION { [1..k -> RowPool] : k \in 1..n }

\* a file without the '取引番号' column carries no id in any row
StripId(rows) == [i \in 1..Len(rows) |-> [rows[i] EXCEPT !.id = NaN]]

File(fk, rows) ==
    CASE fk = "utf8"       -> [enc |-> "utf8", has_id |-> TRUE, rows |-> rows]
      [] fk = "cp932-noid" -> [enc |-> "cp932", has_id |-> FALSE, rows |-> StripId(rows)]
      [] fk = "binary"     -> [enc |-> "binary", has_id |-> FALSE, rows |-> <<>>]

----------------------------------------------------------------------------
(* load_and_process_data *)

\* the function's None
None == [ok |-> FALSE, rows |-> <<>>]

Frame(rows) == [ok |-> TRUE, rows |-> rows]

\* pd.read_csv(file, dtype=str): raises UnicodeDecodeError unless the bytes
\* are UTF-8
DecodesAsUtf8(file) == file.enc = "utf8"

\* pd.read_csv(file, dtype=str, encoding='cp932') after file.seek(0)
DecodesAsCp932(file) == file.enc = "cp932"

\* lines 24-36: one file of the loop; ok = FALSE is the `except Exception`
ReadCsv(file) ==
    IF DecodesAsUtf8(file) THEN [ok |-> TRUE, has_id |-> file.has_id, rows |-> file.rows]
    ELSE IF DecodesAsCp932(file) THEN [ok |-> TRUE, has_id |-> file.has_id, rows |-> file.rows]
    ELSE [ok |-> FALSE, has_id |-> FALSE, rows |-> <<>>]

\* the loop as it would be with `continue` in place of `return None`
RECURSIVE LoadFiles_SkipFailed(_, _)
LoadFiles_SkipFailed(fs, df_list) ==
    IF fs = <<>> THEN [ok |-> TRUE, df_list |-> df_list]
    ELSE LET df_temp == ReadCsv(Head(fs))
         IN  IF ~df_temp.ok THEN LoadFiles_SkipFailed(Tail(fs), df_list)
             ELSE LoadFiles_SkipFailed(Tail(fs), Append(df_list, df_temp))

\* lines 23-36: the loop; the first file that fails ends the function
RECURSIVE LoadFiles(_, _)
LoadFiles(fs, df_list) ==
    IF fs = <<>> THEN [ok |-> TRUE, df_list |-> df_list]
    ELSE LET df_temp == ReadCsv(Head(fs))
         IN  IF ~df_temp.ok THEN [ok |-> FALSE, df_list |-> <<>>]
             ELSE LoadFiles(Tail(fs), Append(df_list, df_temp))

\* pd.concat(df_list, ignore_index=True): the union of the columns, a frame
\* without a column gets NaN there
RECURSIVE ConcatRows(_)
ConcatRows(df_list) ==
    IF df_list = <<>> THEN <<>>
    ELSE LET d == Head(df_list)
         IN  (IF d.has_id THEN d.rows ELSE StripId(d.rows)) \o ConcatRows(Tail(df_list))

Concat(df_list) ==
    [has_id |-> \E i \in 1..Len(df_list) : df_list[i].has_id,
     rows   |-> ConcatRows(df_list)]

\* drop_duplicates(subset=['取引番号'], keep='first'); NaN ids are equal
RECURSIVE KeepFirst(_, _)
KeepFirst(rows, kept) ==
    IF rows = <<>> THEN kept
    ELSE IF \E i \in 1..Len(kept) : kept[i].id = Head(rows).id
         THEN KeepFirst(Tail(rows), kept)
         ELSE KeepFirst(Tail(rows), Append(kept, Head(rows)))

\* the step left out
DropDuplicates_None(rows) == rows

\* keep='last' in place of keep='first'
DropDuplicates_KeepLast(rows) ==
    LET marked == [i \in 1..Len(rows) |->
                      [r |-> rows[i],
                       last |-> \A j \in (i + 1)..Len(rows) : rows[j].id # rows[i].id]]
        kept   == SelectSeq(marked, LAMBDA x : x.last)
    IN  [i \in 1..Len(kept) |-> kept[i].r]

DropDuplicates(rows) == KeepFirst(rows, <<>>)

\* lines 55-58: the numeric columns
NormalizeNumeric(rows) ==
    [i \in 1..Len(rows) |->
        [rows[i] EXCEPT !.pnl = ToNumericFillZero(rows[i].pnl),
                        !.qty = ToNumericFillZero(rows[i].qty)]]

\* line 62: pd.to_datetime raises on a text that is no timestamp
DatetimeRaises(rows) == \E i \in 1..Len(rows) : ~ParsesAsDatetime(rows[i].time)

NormalizeDatetime(rows) ==
    [i \in 1..Len(rows) |-> [rows[i] EXCEPT !.time = ToDatetime(rows[i].time)]]

\* lines 65-66
df_entry(rows) == SelectSeq(rows, LAMBDA r : r.kind = "OPEN")
df_exit(rows) == SelectSeq(rows, LAMBDA r : r.kind = "CLOSE")

\* profit taken from the OPEN row ('決済損益_entry')
MergedRow_EntryProfit(x, e) ==
    [id_exit |-> x.id, id_entry |-> e.id,
     time_exit |-> x.time, time_entry |-> e.time,
     holding_time |-> x.time - e.time,
     profit |-> e.pnl,
     month |-> StrftimeYm(x.time),
     pair |-> e.pair, side |-> e.side, qty_exit |-> x.qty]

\* lines 79-87: the computed columns of one merged row
MergedRow(x, e) ==
    [id_exit |-> x.id, id_entry |-> e.id,
     time_exit |-> x.time, time_entry |-> e.time,
     holding_time |-> x.time - e.time,
     profit |-> x.pnl,
     month |-> StrftimeYm(x.time),
     pair |-> e.pair, side |-> e.side, qty_exit |-> x.qty]

\* the right rows a left row joins
RECURSIVE JoinOne(_, _)
JoinOne(x, entries) ==
    IF entries = <<>> THEN <<>>
    ELSE (IF x.link = Head(entries).id THEN <<MergedRow(x, Head(entries))>> ELSE <<>>)
         \o JoinOne(x, Tail(entries))

\* lines 69-76: pd.merge(df_exit, df_entry, left_on=link, right_on=id,
\* how='inner'), in the order of the left rows
RECURSIVE Merge(_, _)
Merge(exits, entries) ==
    IF exits = <<>> THEN <<>>
    ELSE JoinOne(Head(exits), entries) \o Merge(Tail(exits), entries)

\* sort_values('約定日時_exit'): ascending; kind='quicksort' promises no order
\* among equal keys, the build's sort decides it (tie)
RECURSIVE Insert(_, _, _)
Insert(sorted, t, tie) ==
    IF sorted = <<>> THEN <<t>>
    ELSE IF \/ t.time_exit < Head(sorted).time_exit
            \/ (tie = "reversed" /\ t.time_exit = Head(sorted).time_exit)
         THEN <<t>> \o sorted
         ELSE <<Head(sorted)>> \o Insert(Tail(sorted), t, tie)

RECURSIVE SortLoop(_, _, _)
SortLoop(rest, sorted, tie) ==
    IF rest = <<>> THEN sorted
    ELSE SortLoop(Tail(rest), Insert(sorted, Head(rest), tie), tie)

\* the table returned as merged, not sorted
SortValues_None(rows, tie) == rows

SortValues(rows, tie) == SortLoop(rows, <<>>, tie)

\* lines 43-51: the concatenation, deduplicated
df_raw(df_list) == DropDuplicates(Concat(df_list).rows)

\* lines 41-93
ProcessFrames(df_list, tie) ==
    IF ~Concat(df_list).has_id THEN None
    ELSE LET raw == NormalizeNumeric(df_raw(df_list))
         IN  IF DatetimeRaises(raw) THEN None
             ELSE LET typed == NormalizeDatetime(raw)
                      merged_df == Merge(df_exit(typed), df_entry(typed))
                  IN  Frame(SortValues(merged_df, tie))

\* lines 13-93
load_and_process_data(fs, tie) ==
    IF fs = <<>> THEN None
    ELSE LET loaded == LoadFiles(fs, <<>>)
         IN  IF ~loaded.ok THEN None
             ELSE ProcessFrames(loaded.df_list, tie)

----------------------------------------------------------------------------
(* The upload widget and the rerun of main() it causes. *)

\* the size of a batch: its rows, a file that cannot be read counting as one
RECURSIVE TotalRows(_)
TotalRows(fs) ==
    IF fs = <<>> THEN 0
    ELSE (IF Head(fs).enc = "binary" THEN 1 ELSE Len(Head(fs).rows)) + TotalRows(Tail(fs))

TieOrders == {"stable", "reversed"}

----------------------------------------------------------------------------
(* calculate_kpis *)

\* the function's None
NoKpis == [ok |-> FALSE]

Rat(n, d) == [n |-> n, d |-> d]

RatAbs(a) == Rat(IF a.n < 0 THEN 0 - a.n ELSE a.n, a.d)

\* a / b for b > 0
RatDiv(a, b) == Rat(a.n * b.d, a.d * b.n)

RECURSIVE Sum(_)
Sum(xs) == IF xs = <<>> THEN 0 ELSE Head(xs) + Sum(Tail(xs))

\* Series.mean() of a non-empty column
Mean(xs) == Rat(Sum(xs), Len(xs))

Column(rows, c) == [i \in 1..Len(rows) |-> rows[i][c]]

\* Series.cumsum()
RECURSIVE CumSum(_, _)
CumSum(xs, acc) ==
    IF xs = <<>> THEN <<>>
    ELSE <<acc + Head(xs)>> \o CumSum(Tail(xs), acc + Head(xs))

\* Series.cummax(): the first value starts the running maximum
RECURSIVE CumMaxFrom(_, _)
CumMaxFrom(xs, m) ==
    IF xs = <<>> THEN <<>>
    ELSE LET m2 == IF Head(xs) > m THEN Head(xs) ELSE m
         IN  <<m2>> \o CumMaxFrom(Tail(xs), m2)

CumMax(xs) == IF xs = <<>> THEN <<>> ELSE CumMaxFrom(xs, Head(xs))

\* Series.min() of a non-empty column
RECURSIVE SeqMin(_)
SeqMin(xs) ==
    IF Len(xs) = 1 THEN Head(xs)
    ELSE LET m == SeqMin(Tail(xs)) IN IF Head(xs) < m THEN Head(xs) ELSE m

\* lines 103-104
win_trades(rows) == SelectSeq(rows, LAMBDA r : r.profit > 0)
loss_trades(rows) == SelectSeq(rows, LAMBDA r : r.profit < 0)

\* a breakeven trade counted as a win (profit >= 0)
WinRate_Ge(rows) ==
    IF Len(rows) > 0
    THEN Rat(Len(SelectSeq(rows, LAMBDA r : r.profit >= 0)) * 100, Len(rows))
    ELSE Rat(0, 1)

\* line 107
WinRate(rows) ==
    IF Len(rows) > 0 THEN Rat(Len(win_trades(rows)) * 100, Len(rows)) ELSE Rat(0, 1)

\* the no-wins case tested before the no-losses case
RiskReward_WinsFirst(rows) ==
    LET avg_profit == IF Len(win_trades(rows)) > 0
                      THEN Mean(Column(win_trades(rows), "profit")) ELSE Rat(0, 1)
        avg_loss   == IF Len(loss_trades(rows)) > 0
                      THEN Mean(Column(loss_trades(rows), "profit")) ELSE Rat(0, 1)
    IN  IF avg_profit.n = 0 THEN [inf |-> FALSE, n |-> 0, d |-> 1]
        ELSE IF avg_loss.n = 0 THEN [inf |-> TRUE, n |-> 0, d |-> 1]
        ELSE LET q == RatDiv(avg_profit, RatAbs(avg_loss))
             IN  [inf |-> FALSE, n |-> q.n, d |-> q.d]

\* lines 110-116; inf = TRUE is float('inf')
RiskReward(rows) ==
    LET avg_profit == IF Len(win_trades(rows)) > 0
                      THEN Mean(Column(win_trades(rows), "profit")) ELSE Rat(0, 1)
        avg_loss   == IF Len(loss_trades(rows)) > 0
                      THEN Mean(Column(loss_trades(rows), "profit")) ELSE Rat(0, 1)
    IN  IF avg_loss.n = 0 THEN [inf |-> TRUE, n |-> 0, d |-> 1]
        ELSE LET q == RatDiv(avg_profit, RatAbs(avg_loss))
             IN  [inf |-> FALSE, n |-> q.n, d |-> q.d]

\* the cumulative sum taken in the caller's order, without the sort
MaxDrawdown_Unsorted(rows, tie) ==
    LET cumulative_profit == CumSum(Column(rows, "profit"), 0)
        running_max       == CumMax(cumulative_profit)
        drawdown          == [i \in 1..Len(rows) |-> cumulative_profit[i] - running_max[i]]
    IN  SeqMin(drawdown)

\* lines 119-123
MaxDrawdown(rows, tie) ==
    LET df_sorted         == SortValues(rows, tie)
        cumulative_profit == CumSum(Column(df_sorted, "profit"), 0)
        running_max       == CumMax(cumulative_profit)
        drawdown          == [i \in 1..Len(rows) |-> cumulative_profit[i] - running_max[i]]
    IN  SeqMin(drawdown)

\* the function without its guard for an empty frame, the sentinels of the
\* metrics returned in a summary
calculate_kpis_Sentinels(rows, tie) ==
    IF Len(rows) = 0
    THEN [ok               |-> TRUE,
          win_rate         |-> WinRate(rows),
          risk_reward      |-> RiskReward(rows),
          max_drawdown     |-> 0,
          avg_holding_time |-> Rat(0, 1),
          total_profit     |-> Sum(Column(rows, "profit"))]
    ELSE [ok               |-> TRUE,
          win_rate         |-> WinRate(rows),
          risk_reward      |-> RiskReward(rows),
          max_drawdown     |-> MaxDrawdown(rows, tie),
          avg_holding_time |-> Mean(Column(rows, "holding_time")),
          total_profit     |-> Sum(Column(rows, "profit"))]

\* lines 95-137
calculate_kpis(rows, tie) ==
    IF Len(rows) = 0 THEN NoKpis
    ELSE [ok               |-> TRUE,
          win_rate         |-> WinRate(rows),
          risk_reward      |-> RiskReward(rows),
          max_drawdown     |-> MaxDrawdown(rows, tie),
          avg_holding_time |-> Mean(Column(rows, "holding_time")),
          total_profit     |-> Sum(Column(rows, "profit"))]

----------------------------------------------------------------------------
(* The upload widget and the rerun of main() it causes. *)

Init ==
    /\ files = <<>>
    /\ df = None
    /\ trades = <<>>
    /\ kpis = NoKpis
    /\ tieOrder \in TieOrders
    /\ called = "nothing"

\* lines 177-184: a file is added to the uploader, main() reruns
Upload ==
    /\ Len(files) < MaxFiles
    /\ TotalRows(files) < MaxRows
    /\ \E fk \in FileKinds :
         \E rows \in IF fk = "binary" THEN {<<>>}
                     ELSE RowSeqs(MaxRows - TotalRows(files)) :
            /\ files' = Append(files, File(fk, rows))
            /\ df' = load_and_process_data(files', tieOrder)
    /\ called' = "load_and_process_data"
    /\ UNCHANGED <<trades, kpis, tieOrder>>

Next == Upload

Spec == Init /\ [][Next]_vars

----------------------------------------------------------------------------
(* calculate_kpis on a caller-selected set of trades. *)

KpiProfits == {-50, 0, 100, 200}
KpiTimes == {10, 20}

\* a row of the trade table, with the columns calculate_kpis reads
KpiRow(p, t) == [profit |-> p, time_exit |-> t, holding_time |-> 5]

InitKpi ==
    /\ files = <<>>
    /\ df = None
    /\ trades = <<>>
    /\ kpis = NoKpis
    /\ tieOrder \in TieOrders
    /\ called = "nothing"

\* lines 200-206: the caller's selection grows by one trade
SelectTrade ==
    /\ Len(trades) < MaxTrades
    /\ \E p \in KpiProfits, t \in KpiTimes :
         /\ trades' = Append(trades, KpiRow(p, t))
         /\ kpis' = calculate_kpis(trades', tieOrder)
    /\ called' = "calculate_kpis"
    /\ UNCHANGED <<files, df, tieOrder>>

\* lines 200-206: the caller's selection loses its last trade
DeselectTrade ==
    /\ trades # <<>>
    /\ trades' = SubSeq(trades, 1, Len(trades) - 1)
    /\ kpis' = calculate_kpis(trades', tieOrder)
    /\ called' = "calculate_kpis"
    /\ UNCHANGED <<files, df, tieOrder>>

NextKpi == SelectTrade \/ DeselectTrade

SpecKpi == InitKpi /\ [][NextKpi]_vars

----------------------------------------------------------------------------
(* Properties of load_and_process_data, checked under Spec. *)

RemoveAt(s, j) == SubSeq(s, 1, j - 1) \o SubSeq(s, j + 1, Len(s))

AllRead == \A i \in 1..Len(files) : ReadCsv(files[i]).ok

\* the concatenation of the batch, in file order then row order
AllRows == ConcatRows(LoadFiles(files, <<>>).df_list)

\* the deduplicated, typed records the matcher works on
Deduped == NormalizeNumeric(df_raw(LoadFiles(files, <<>>).df_list))

\* position of the first row of rows with this id
FirstIndex(rows, id) == CHOOSE i \in 1..Len(rows) :
    rows[i].id = id /\ \A j \in 1..(i - 1) : rows[j].id # id

\* C1: a batch in which a source occurs twice yields the very table (same
\* rows, same profits, same order, or the same failure) of the batch with
\* the later occurrence taken out.
C1_DedupIdempotent ==
    \A i \in 1..Len(files) : \A j \in (i + 1)..Len(files) :
        files[i] = files[j] => df = load_and_process_data(RemoveAt(files, j), tieOrder)

\* a source with a CLOSE uploaded twice, and that CLOSE is a trade, once
C1_Witness ==
    /\ df.ok
    /\ \E i \in 1..Len(files) : \E j \in (i + 1)..Len(files) :
         /\ files[i] = files[j]
         /\ \E r \in 1..Len(files[i].rows) :
              /\ files[i].rows[r].kind = "CLOSE"
              /\ Cardinality({k \in 1..Len(df.rows) :
                     df.rows[k].id_exit = files[i].rows[r].id}) = 1

\* C2: the table has one row per CLOSE record of the deduplicated data whose
\* linked id is the id of an OPEN record there (K rows), that row carries the
\* CLOSE's realized profit, and nothing else is in the table.
C2_JoinCorrect ==
    df.ok =>
        LET rows    == Deduped
            opens   == {i \in 1..Len(rows) : rows[i].kind = "OPEN"}
            closes  == {i \in 1..Len(rows) : rows[i].kind = "CLOSE"}
            matched == {c \in closes : \E o \in opens : rows[o].id = rows[c].link}
        IN  /\ Len(df.rows) = Cardinality(matched)
            /\ \A c \in matched :
                 \E k \in 1..Len(df.rows) :
                    /\ df.rows[k].id_exit = rows[c].id
                    /\ df.rows[k].profit = rows[c].pnl
            /\ \A k \in 1..Len(df.rows) :
                 \E c \in matched : /\ df.rows[k].id_exit = rows[c].id
                                    /\ df.rows[k].id_entry = rows[c].link

\* one OPEN and two CLOSEs, one CLOSE matched and one left over (N = 1,
\* M = 2, K = 1), and the row has a profit other than 0
C2_Witness ==
    /\ df.ok
    /\ Len(df.rows) = 1
    /\ df.rows[1].profit # 0
    /\ Cardinality({i \in 1..Len(Deduped) : Deduped[i].kind = "OPEN"}) = 1
    /\ Cardinality({i \in 1..Len(Deduped) : Deduped[i].kind = "CLOSE"}) = 2

\* C4: a batch in which some source lacks the transaction-id column yields
\* no table.
C4_SchemaError ==
    (AllRead /\ \E i \in 1..Len(files) : ~files[i].has_id) => ~df.ok

\* C5: a source that cannot be read under either encoding, or a timestamp
\* that does not parse in a later stage, leaves no table at all.
C5_FailFast ==
    /\ (\E i \in 1..Len(files) : ~ReadCsv(files[i]).ok) => df = None
    /\ (AllRead /\ DatetimeRaises(Deduped)) => df = None

\* the first source alone gives a table with a trade, the second cannot be
\* read, and there is no table
C5_Witness ==
    /\ Len(files) = 2
    /\ load_and_process_data(<<files[1]>>, tieOrder).ok
    /\ Len(load_and_process_data(<<files[1]>>, tieOrder).rows) > 0
    /\ ~ReadCsv(files[2]).ok
    /\ df = None

\* C6: after the dedup step no transaction id occurs twice, the record kept
\* for an id is the first one of the concatenation, and a trade carries the
\* values of that first record.
C6_FirstSeenWins ==
    AllRead =>
        LET all  == AllRows
            kept == df_raw(LoadFiles(files, <<>>).df_list)
        IN  /\ \A a, b \in 1..Len(kept) : kept[a].id = kept[b].id => a = b
            /\ \A a \in 1..Len(all) : \E k \in 1..Len(kept) : kept[k].id = all[a].id
            /\ \A k \in 1..Len(kept) : kept[k] = all[FirstIndex(all, kept[k].id)]
            /\ df.ok =>
                 \A t \in 1..Len(df.rows) :
                    LET first == all[FirstIndex(all, df.rows[t].id_exit)]
                    IN  /\ df.rows[t].profit = ToNumericFillZero(first.pnl)
                        /\ df.rows[t].time_exit = ToDatetime(first.time)

\* two sources carry the same transaction id with different values and the
\* trade of that id is in the table
C6_Witness ==
    /\ df.ok
    /\ Len(files) = 2
    /\ \E a \in 1..Len(files[1].rows) : \E b \in 1..Len(files[2].rows) :
         /\ files[1].rows[a].id = files[2].rows[b].id
         /\ files[1].rows[a].pnl # files[2].rows[b].pnl
         /\ \E t \in 1..Len(df.rows) : df.rows[t].id_exit = files[1].rows[a].id

\* C9: every table returned is non-decreasing in exit_time.
C9_SortedByExitTime ==
    df.ok => \A a, b \in 1..Len(df.rows) :
                a < b => df.rows[a].time_exit <= df.rows[b].time_exit

\* two trades whose CLOSE records come in the batch in the other order
C9_Witness ==
    /\ df.ok
    /\ Len(df.rows) = 2
    /\ df.rows[1].time_exit < df.rows[2].time_exit
    /\ FirstIndex(AllRows, df.rows[1].id_exit) > FirstIndex(AllRows, df.rows[2].id_exit)

----------------------------------------------------------------------------
(* Properties of calculate_kpis, checked under SpecKpi. *)

Winners == {i \in 1..Len(trades) : trades[i].profit > 0}
Losers == {i \in 1..Len(trades) : trades[i].profit < 0}
Breakevens == {i \in 1..Len(trades) : trades[i].profit = 0}

RECURSIVE SumOver(_)
SumOver(I) ==
    IF I = {} THEN 0
    ELSE LET i == CHOOSE x \in I : TRUE IN trades[i].profit + SumOver(I \ {i})

\* C3 as the spec states it: an empty trade set gets a summary of sentinels.
C3_EmptySentinels ==
    (called = "calculate_kpis" /\ trades = <<>>) =>
        /\ kpis.ok
        /\ kpis.win_rate.n = 0
        /\ kpis.total_profit = 0
        /\ kpis.max_drawdown = 0
        /\ kpis.risk_reward.inf

\* C3, amended: an empty trade set gets no summary (None), no metric at all.
C3_EmptyNoSummary ==
    (called = "calculate_kpis" /\ trades = <<>>) => kpis = NoKpis

\* calculate_kpis has run on an empty selection and returned None
C3_Witness == called = "calculate_kpis" /\ trades = <<>> /\ ~kpis.ok

\* the order of exit times calculate_kpis sums along
Ordered == SortValues(trades, tieOrder)

Count(s, x) == Cardinality({i \in 1..Len(s) : s[i] = x})

\* cumulative profit after each trade of s
Cumulative(s) == [k \in 1..Len(s) |-> Sum(Column(SubSeq(s, 1, k), "profit"))]

\* C7: the trades are taken in exit-time order whatever order they come in,
\* max_drawdown is the least of (cumulative profit - highest cumulative
\* profit so far) over the prefixes of that order, it is never positive, and
\* it is 0 exactly when the cumulative profit never falls below a peak.
C7_MaxDrawdown ==
    trades # <<>> =>
        LET s    == Ordered
            cum  == Cumulative(s)
            peak == [k \in 1..Len(s) |->
                       CHOOSE m \in {cum[j] : j \in 1..k} : \A j \in 1..k : cum[j] <= m]
        IN  /\ Len(s) = Len(trades)
            /\ \A i \in 1..Len(trades) : Count(s, trades[i]) = Count(trades, trades[i])
            /\ \A a, b \in 1..Len(s) : a < b => s[a].time_exit <= s[b].time_exit
            /\ kpis.ok
            /\ \E k \in 1..Len(s) : kpis.max_drawdown = cum[k] - peak[k]
            /\ \A k \in 1..Len(s) : kpis.max_drawdown <= cum[k] - peak[k]
            /\ kpis.max_drawdown <= 0
            /\ (kpis.max_drawdown = 0) <=>
                 (\A k \in 1..Len(s) : \A j \in 1..k : cum[k] >= cum[j])

\* the caller passes a loss before the earlier gain: in exit-time order the
\* drawdown is -50, in the caller's order it would be 0
C7_Witness ==
    /\ Len(trades) = 2
    /\ trades[1].time_exit > trades[2].time_exit
    /\ trades[1].profit = -50
    /\ trades[2].profit = 100
    /\ kpis.ok
    /\ kpis.max_drawdown = -50

\* C8: risk_reward is infinity when no trade loses (also when none wins), 0
\* when some lose and none wins, and otherwise the mean win over the absolute
\* mean loss; wins 100 and 200 with one loss of -50 give 3.
C8_RiskReward ==
    trades # <<>> =>
        LET rr == kpis.risk_reward
        IN  /\ kpis.ok
            /\ Losers = {} => rr.inf
            /\ Losers # {} => ~rr.inf /\ rr.d > 0
            /\ (Losers # {} /\ Winners = {}) => rr.n = 0
            /\ (Losers # {} /\ Winners # {}) =>
                 rr.n * (Cardinality(Winners) * (0 - SumOver(Losers)))
                   = rr.d * (SumOver(Winners) * Cardinality(Losers))
            /\ (/\ Len(trades) = 3
                /\ \E a, b, c \in 1..3 : /\ trades[a].profit = 100
                                         /\ trades[b].profit = 200
                                         /\ trades[c].profit = -50)
                 => rr.n = 3 * rr.d

\* every trade breaks even: no loss and no win, and the ratio is infinity
C8_Witness ==
    /\ Len(trades) >= 2
    /\ Winners = {}
    /\ Losers = {}
    /\ kpis.ok
    /\ kpis.risk_reward.inf

\* C10: win_rate is 100 * (trades with profit > 0) / (all trades), breakeven
\* trades counting below the line only; it lies in 0..100, and 3 winners, 1
\* loser and 1 breakeven give 60.
C10_WinRate ==
    trades # <<>> =>
        LET wr == kpis.win_rate
        IN  /\ kpis.ok
            /\ wr.d > 0
            /\ wr.n * Len(trades) = 100 * Cardinality(Winners) * wr.d
            /\ 0 <= wr.n /\ wr.n <= 100 * wr.d
            /\ (/\ Cardinality(Winners) = 3
                /\ Cardinality(Losers) = 1
                /\ Cardinality(Breakevens) = 1) => wr.n = 60 * wr.d

\* 2 winners, 1 loser and 1 breakeven: the breakeven trade counts below
\* the line only, and win_rate is 50
C10_Witness ==
    /\ Cardinality(Winners) = 2
    /\ Cardinality(Losers) = 1
    /\ Cardinality(Breakevens) = 1
    /\ kpis.ok
    /\ kpis.win_rate.n = 50 * kpis.win_rate.d

====
